---------------------------- MODULE Spec2Model ----------------------------
(***************************************************************************)
(* A model of the registry and liveness-detection core of the HYMetaLab    *)
(* launcher backend (src-tauri/src/lib.rs): the JSON registry of           *)
(* registered application bundles, the directory scanner, the process      *)
(* snapshot matcher and the signal-file reader.                            *)
(*                                                                         *)
(* Strings are sequences of one-character strings; their bytes (ByteOf)    *)
(* give Rust's ordering of strings and the ASCII case folding.             *)
(***************************************************************************)
EXTENDS Integers, Sequences, FiniteSets, TLC

VARIABLES
    fnIn,       \* the argument of the pure function under check
    fnOut,      \* its results, one per application
    home,       \* the HOME environment variable: None or Some(directory)
    fsRoots,    \* the application root directories that exist
    fsDirs,     \* the bundle directories that exist
    disk,       \* the registry file $HOME/.hymetalab/config/apps.json
    ret,        \* the last command: its arguments, its result, the file before it
    procs,      \* the process table: the command lines of the running processes
    batch,      \* the get_running_registered_apps call in progress
    sigFiles,   \* the signal files of the cci-bus directory, by application key
    calls,      \* the add and remove calls of each launcher process, step by step
    log         \* the writes made to the registry file, in order

fnVars == <<fnIn, fnOut>>
regVars == <<home, fsRoots, fsDirs, disk, ret>>
liveVars == <<procs, batch>>
raceVars == <<calls, log>>
vars == <<fnIn, fnOut, home, fsRoots, fsDirs, disk, ret, procs, batch, sigFiles, calls, log>>

---------------------------------------------------------------------------
(* Strings *)

\* The characters of the model: the ASCII letters and digits, the punctuation the
\* paths, command lines and names use, and the white space.
Upper == <<"A", "B", "C", "D", "E", "F", "G", "H", "I", "J", "K", "L", "M",
           "N", "O", "P", "Q", "R", "S", "T", "U", "V", "W", "X", "Y", "Z">>

Lower == <<"a", "b", "c", "d", "e", "f", "g", "h", "i", "j", "k", "l", "m",
           "n", "o", "p", "q", "r", "s", "t", "u", "v", "w", "x", "y", "z">>

Digits == <<"0", "1", "2", "3", "4", "5", "6", "7", "8", "9">>

Range(f) == {f[i] : i \in DOMAIN f}

IndexIn(seq, c) == CHOOSE i \in 1..Len(seq) : seq[i] = c

CharSet ==
    Range(Upper) \cup Range(Lower) \cup Range(Digits)
        \cup {"\t", "\n", "\r", " ", "-", ".", "/", "_"}

\* The byte of a character.
ByteOf ==
    [c \in CharSet |->
        IF c \in Range(Upper) THEN 64 + IndexIn(Upper, c)
        ELSE IF c \in Range(Lower) THEN 96 + IndexIn(Lower, c)
        ELSE IF c \in Range(Digits) THEN 47 + IndexIn(Digits, c)
        ELSE IF c = "\t" THEN 9
        ELSE IF c = "\n" THEN 10
        ELSE IF c = "\r" THEN 13
        ELSE IF c = " " THEN 32
        ELSE IF c = "-" THEN 45
        ELSE IF c = "." THEN 46
        ELSE IF c = "/" THEN 47
        ELSE 95]

\* u8::to_ascii_lowercase: 'A'..'Z' map to 'a'..'z', every other byte to itself.
LowerChar ==
    [c \in CharSet |-> IF c \in Range(Upper) THEN Lower[IndexIn(Upper, c)] ELSE c]

\* str::to_ascii_lowercase
to_ascii_lowercase(s) == [i \in 1..Len(s) |-> LowerChar[s[i]]]

\* str::eq_ignore_ascii_case
eq_ignore_ascii_case(a, b) ==
    /\ Len(a) = Len(b)
    /\ \A i \in 1..Len(a) : LowerChar[a[i]] = LowerChar[b[i]]

\* Ord for str: lexicographic on the bytes; a proper prefix is less.
RECURSIVE StrCmpFrom(_, _, _)
StrCmpFrom(a, b, i) ==
    IF i > Len(a) /\ i > Len(b) THEN "Equal"
    ELSE IF i > Len(a) THEN "Less"
    ELSE IF i > Len(b) THEN "Greater"
    ELSE IF ByteOf[a[i]] < ByteOf[b[i]] THEN "Less"
    ELSE IF ByteOf[a[i]] > ByteOf[b[i]] THEN "Greater"
    ELSE StrCmpFrom(a, b, i + 1)

StrCmp(a, b) == StrCmpFrom(a, b, 1)

\* char::is_whitespace, on the characters of the model.
IsWhitespace(c) == c \in {" ", "\t", "\n", "\r"}

RECURSIVE TrimStart(_)
TrimStart(s) ==
    IF s # <<>> /\ IsWhitespace(Head(s)) THEN TrimStart(Tail(s)) ELSE s

RECURSIVE TrimEnd(_)
TrimEnd(s) ==
    IF s # <<>> /\ IsWhitespace(s[Len(s)]) THEN TrimEnd(SubSeq(s, 1, Len(s) - 1)) ELSE s

\* str::trim
Trim(s) == TrimEnd(TrimStart(s))

\* str::contains(&str): pat occurs at some position of s.
Contains(s, pat) ==
    \E i \in 1..(Len(s) - Len(pat) + 1) : SubSeq(s, i, i + Len(pat) - 1) = pat

---------------------------------------------------------------------------
(* RegisteredApp and the dedupe/sort step *)

RegisteredApp(name, path) == [name |-> name, path |-> path]

\* The index of the first kept entry with app's path, ASCII case ignored; 0 if none
\* (the iter_mut().find(..) of sort_and_dedupe_apps and add_registered_app).
FindByPath(kept, path) ==
    IF \E i \in 1..Len(kept) : eq_ignore_ascii_case(kept[i].path, path)
    THEN CHOOSE i \in 1..Len(kept) :
            /\ eq_ignore_ascii_case(kept[i].path, path)
            /\ \A j \in 1..(i - 1) : ~eq_ignore_ascii_case(kept[j].path, path)
    ELSE 0

\* One turn of the loop: replace the kept entry with the same path, or push.
DedupeStepFirstWins(deduped, app) ==
    IF FindByPath(deduped, app.path) # 0 THEN deduped ELSE Append(deduped, app)

DedupeStep(deduped, app) ==
    LET i == FindByPath(deduped, app.path)
    IN  IF i # 0 THEN [deduped EXCEPT ![i] = app] ELSE Append(deduped, app)

RECURSIVE DedupeLoop(_, _)
DedupeLoop(deduped, apps) ==
    IF apps = <<>> THEN deduped
    ELSE DedupeLoop(DedupeStep(deduped, Head(apps)), Tail(apps))

\* The comparator of the sort_by: name, then path, both ASCII-lowercased.
AppCmp(left, right) ==
    LET byName == StrCmp(to_ascii_lowercase(left.name), to_ascii_lowercase(right.name))
    IN  IF byName # "Equal" THEN byName
        ELSE StrCmp(to_ascii_lowercase(left.path), to_ascii_lowercase(right.path))

\* slice::sort_by is a stable sort: an insertion sort that puts each entry after
\* the entries that do not compare greater.
RECURSIVE InsertSorted(_, _)
InsertSorted(sorted, app) ==
    IF sorted = <<>> THEN <<app>>
    ELSE IF AppCmp(sorted[Len(sorted)], app) = "Greater"
         THEN Append(InsertSorted(SubSeq(sorted, 1, Len(sorted) - 1), app), sorted[Len(sorted)])
         ELSE Append(sorted, app)

RECURSIVE SortLoop(_, _)
SortLoop(sorted, rest) ==
    IF rest = <<>> THEN sorted
    ELSE SortLoop(InsertSorted(sorted, Head(rest)), Tail(rest))

SortApps(apps) == SortLoop(<<>>, apps)

\* A dedupe that only merges neighbours (Vec::dedup_by), then the sort.
RECURSIVE DedupeAdjacentLoop(_, _)
DedupeAdjacentLoop(deduped, apps) ==
    IF apps = <<>> THEN deduped
    ELSE IF deduped # <<>> /\ eq_ignore_ascii_case(deduped[Len(deduped)].path, Head(apps).path)
         THEN DedupeAdjacentLoop([deduped EXCEPT ![Len(deduped)] = Head(apps)], Tail(apps))
         ELSE DedupeAdjacentLoop(Append(deduped, Head(apps)), Tail(apps))

sort_and_dedupe_adjacent(apps) == SortApps(DedupeAdjacentLoop(<<>>, apps))

\* The dedupe without the sort.
sort_and_dedupe_unsorted(apps) == DedupeLoop(<<>>, apps)

sort_and_dedupe_apps(apps) == SortApps(DedupeLoop(<<>>, apps))

---------------------------------------------------------------------------
(* Option and Result values *)

None == [some |-> FALSE, v |-> <<>>]
Some(x) == [some |-> TRUE, v |-> x]

Ok(x) == [ok |-> TRUE, v |-> x, err |-> ""]
Err(msg) == [ok |-> FALSE, v |-> <<>>, err |-> msg]

---------------------------------------------------------------------------
(* Paths: std::path::Path on the strings of the model *)

\* The path without its trailing separators (Path::components ignores them).
RECURSIVE StripTrailingSlashes(_)
StripTrailingSlashes(p) ==
    IF Len(p) > 1 /\ p[Len(p)] = "/" THEN StripTrailingSlashes(SubSeq(p, 1, Len(p) - 1)) ELSE p

\* The position of the last occurrence of c in s, 0 if there is none.
LastIndexOf(s, c) ==
    LET at == {i \in 1..Len(s) : s[i] = c}
    IN  IF at = {} THEN 0 ELSE CHOOSE i \in at : \A j \in at : j <= i

\* Path::file_name: the last component, None for the root and for "..".
file_name(path) ==
    LET p == StripTrailingSlashes(path)
        name == SubSeq(p, LastIndexOf(p, "/") + 1, Len(p))
    IN  IF name = <<>> \/ name = <<"/">> \/ name = <<".", ".">> THEN None ELSE Some(name)

\* Path::extension: what follows the last dot of the file name, None when the
\* name has no dot or only a leading one.
extension(path) ==
    LET f == file_name(path)
    IN  IF ~f.some THEN None
        ELSE IF LastIndexOf(f.v, ".") <= 1 THEN None
        ELSE Some(SubSeq(f.v, LastIndexOf(f.v, ".") + 1, Len(f.v)))

\* Path::file_stem: the file name up to its last dot; the whole name when it has
\* no dot or only a leading one.
file_stem(path) ==
    LET f == file_name(path)
    IN  IF ~f.some THEN None
        ELSE IF LastIndexOf(f.v, ".") <= 1 THEN f
        ELSE Some(SubSeq(f.v, 1, LastIndexOf(f.v, ".") - 1))

\* Path::join of a directory and a relative name.
Join(dir, name) == dir \o <<"/">> \o name

\* Path::parent of the paths of the model (absolute, no trailing separator).
Parent(path) == SubSeq(path, 1, LastIndexOf(path, "/") - 1)

bundle_name_from_app_path(path) == file_stem(path)

---------------------------------------------------------------------------
(* The strings the checks draw from *)

Applications == <<"A", "p", "p", "l", "i", "c", "a", "t", "i", "o", "n", "s">>
HomeDir == <<"/", "U", "s", "e", "r", "s", "/", "j">>

SystemRoot == <<"/">> \o Applications
UserRoot == Join(HomeDir, Applications)

PathD == Join(SystemRoot, <<"D", "u", "g", "o", "u", "t", ".", "a", "p", "p">>)
PathDLower == Join(SystemRoot, <<"d", "u", "g", "o", "u", "t", ".", "a", "p", "p">>)
PathC == Join(SystemRoot, <<"C", "o", "m", "p", "a", "n", "i", "o", "n", ".", "a", "p", "p">>)
\* A symbolic link in the user's root to the bundle PathC.
PathL == Join(UserRoot, <<"L", "i", "n", "k", ".", "a", "p", "p">>)
\* A symbolic link to a bundle directory whose name is not valid UTF-8.
PathU == Join(UserRoot, <<"O", "d", "d", ".", "a", "p", "p">>)
\* A regular file with the bundle extension, outside the roots.
PathF == Join(HomeDir, <<"F", "i", "l", "e", ".", "a", "p", "p">>)
\* PathD in another spelling, which names no directory of a case-sensitive volume.
PathDOther ==
    <<"/", "a", "p", "p", "l", "i", "c", "a", "t", "i", "o", "n", "s", "/", "D", "u", "g", "o", 
      "u", "t", ".", "A", "P", "P">>

NameA == <<"a">>
NameB == <<"b">>
NameBUpper == <<"B">>
NameZPadded == <<" ", "Z", " ">>
Blank == <<" ", " ">>

\* The longest list of entries a check of the dedupe/sort step draws.
MaxApps == 3

AppPool ==
    {RegisteredApp(n, p) : n \in {NameA, NameB, NameBUpper}, p \in {PathD, PathDLower, PathC}}

SeqsUpTo(S, n) == UNION {[1..k -> S] : k \in 0..n}

\* The sequences that list each element of a finite set once.
Orderings(S) ==
    {f \in [1..Cardinality(S) -> S] : \A i, j \in 1..Cardinality(S) : i # j => f[i] # f[j]}

---------------------------------------------------------------------------
(* The file system *)

\* The bundle directories of the model.
Bundles == {PathD, PathDLower, PathC}

\* The bundles the user installs and deletes while the launcher runs.
Removable == {PathC}

\* The symbolic links: PathL to the bundle PathC, PathU to a directory whose name
\* is not valid UTF-8 (to_str() returns None for it).
LinkTarget(path) ==
    IF path = PathL THEN [link |-> TRUE, utf8 |-> TRUE, v |-> PathC]
    ELSE IF path = PathU THEN [link |-> TRUE, utf8 |-> FALSE, v |-> <<>>]
    ELSE [link |-> FALSE, utf8 |-> TRUE, v |-> path]

\* The root directory a path of the model lies in.
RootOf(path) == Parent(path)

\* Path::exists && Path::is_dir, both of which follow symbolic links.
IsDir(path) ==
    LET target == LinkTarget(path)
    IN  /\ RootOf(path) \in fsRoots
        /\ \/ path \in fsDirs
           \/ target.link /\ ~target.utf8
           \/ target.link /\ target.utf8 /\ target.v \in fsDirs /\ RootOf(target.v) \in fsRoots

\* The entries of a root directory that read_dir lists.
Children(root) ==
    {p \in {PathD, PathDLower, PathC, PathL, PathU} :
        /\ RootOf(p) = root
        /\ (p \in Bundles => p \in fsDirs)}

\* fs::canonicalize of an existing directory followed by to_str(): the path with
\* its links resolved, None when that path is not valid UTF-8.
CanonicalStr(path) ==
    IF LinkTarget(path).utf8 THEN Some(LinkTarget(path).v) ELSE None

is_valid_app_bundle_path(path) ==
    LET ext == extension(path)
        has_app_extension == ext.some /\ eq_ignore_ascii_case(ext.v, <<"a", "p", "p">>)
    IN  has_app_extension /\ IsDir(path)

\* canonOk: whether fs::canonicalize succeeds; when it fails the trimmed path
\* stands in for the canonical one.
normalize_app_path(path, canonOk) ==
    LET trimmed_path == Trim(path)
    IN  IF trimmed_path = <<>> THEN Err("App path is required.")
        ELSE IF ~is_valid_app_bundle_path(trimmed_path) THEN Err("Invalid app bundle path")
        ELSE LET canonical == IF canonOk THEN CanonicalStr(trimmed_path) ELSE Some(trimmed_path)
             IN  IF canonical.some THEN Ok(canonical.v)
                 ELSE Err("App path must be valid UTF-8.")

---------------------------------------------------------------------------
(* The registry file *)

Absent == [state |-> "absent", apps |-> <<>>]
\* A file that is not the JSON of a list of entries: empty, cut short, or other text.
Corrupt == [state |-> "corrupt", apps |-> <<>>]
\* A file that holds the JSON array of these entries.
Json(apps) == [state |-> "json", apps |-> apps]

apps_registry_path ==
    IF home.some THEN Ok(home.v) ELSE Err("Could not resolve HOME")

\* readOk: whether fs::read_to_string succeeds on the existing file.
read_registered_apps(readOk) ==
    IF ~apps_registry_path.ok THEN Err(apps_registry_path.err)
    ELSE IF disk.state = "absent" THEN Ok(<<>>)
    ELSE IF ~readOk THEN Err("Failed to read app registry")
    ELSE IF disk.state = "corrupt" THEN Err("Failed to parse app registry")
    ELSE Ok(sort_and_dedupe_apps(disk.apps))

\* The faults of one write: none; create_dir_all fails; File::create (the open of
\* fs::write) fails; write_all fails after File::create has truncated the file.
WriteFaults == {"none", "mkdir", "create", "write"}

\* The result of write_registered_apps and the file it leaves.
write_registered_apps(apps, fault) ==
    IF ~apps_registry_path.ok
        THEN [res |-> Err(apps_registry_path.err), file |-> disk]
    ELSE IF fault = "mkdir"
        THEN [res |-> Err("Failed to create app registry directory"), file |-> disk]
    ELSE IF fault = "create"
        THEN [res |-> Err("Failed to write app registry"), file |-> disk]
    ELSE IF fault = "write"
        THEN [res |-> Err("Failed to write app registry"), file |-> Corrupt]
    ELSE [res |-> Ok(<<>>), file |-> Json(apps)]

---------------------------------------------------------------------------
(* The registry commands *)

\* The one fault a command meets in its calls of the operating system, if any:
\* fs::read_to_string, fs::create_dir_all, File::create or write_all fails.
\* fs::canonicalize of a directory that was just found to exist succeeds.
Faults == {"none", "read"} \cup WriteFaults

\* What a command leaves: its result, the registry file, and the path and the name
\* it worked with.
Outcome(res, file, path, name) ==
    [res |-> res, file |-> file, normalized_path |-> path, normalized_name |-> name]

\* The entry with new_app's path keeps its old contents.
UpsertKeepsOld(apps, new_app) ==
    IF FindByPath(apps, new_app.path) # 0 THEN apps ELSE Append(apps, new_app)

\* add_registered_app: the entry with new_app's path is overwritten, or new_app pushed.
Upsert(apps, new_app) ==
    LET i == FindByPath(apps, new_app.path)
    IN  IF i # 0 THEN [apps EXCEPT ![i] = new_app] ELSE Append(apps, new_app)

add_registered_app(path, name, fault) ==
    LET normalized_path == normalize_app_path(path, TRUE)
    IN  IF ~normalized_path.ok THEN Outcome(Err(normalized_path.err), disk, <<>>, <<>>)
        ELSE
        LET fallback_name == bundle_name_from_app_path(normalized_path.v)
        IN  IF ~fallback_name.some
                THEN Outcome(Err("Failed to derive app name from path."), disk, normalized_path.v, <<>>)
            ELSE
            LET normalized_name == Trim(IF name.some THEN name.v ELSE fallback_name.v)
            IN  IF normalized_name = <<>>
                    THEN Outcome(Err("App name cannot be empty."), disk, normalized_path.v, <<>>)
                ELSE
                LET loaded == read_registered_apps(fault # "read")
                IN  IF ~loaded.ok
                        THEN Outcome(Err(loaded.err), disk, normalized_path.v, normalized_name)
                    ELSE
                    LET new_app == RegisteredApp(normalized_name, normalized_path.v)
                        sorted_apps == sort_and_dedupe_apps(Upsert(loaded.v, new_app))
                        written == write_registered_apps(sorted_apps, fault)
                    IN  IF ~written.res.ok
                            THEN Outcome(Err(written.res.err), written.file,
                                         normalized_path.v, normalized_name)
                        ELSE Outcome(Ok(sorted_apps), written.file,
                                     normalized_path.v, normalized_name)

\* The filter compares the spellings as they are.
RetainCaseSensitive(apps, trimmed_path) ==
    SelectSeq(apps, LAMBDA app : app.path # trimmed_path)

\* remove_registered_app: the entries whose path is not the trimmed input.
Retain(apps, trimmed_path) ==
    SelectSeq(apps, LAMBDA app : ~eq_ignore_ascii_case(app.path, trimmed_path))

remove_registered_app(path, fault) ==
    LET trimmed_path == Trim(path)
    IN  IF trimmed_path = <<>> THEN Outcome(Err("App path is required."), disk, <<>>, <<>>)
        ELSE
        LET loaded == read_registered_apps(fault # "read")
        IN  IF ~loaded.ok THEN Outcome(Err(loaded.err), disk, trimmed_path, <<>>)
            ELSE
            LET sorted_apps == sort_and_dedupe_apps(Retain(loaded.v, trimmed_path))
                written == write_registered_apps(sorted_apps, fault)
            IN  IF ~written.res.ok
                    THEN Outcome(Err(written.res.err), written.file, trimmed_path, <<>>)
                ELSE Outcome(Ok(sorted_apps), written.file, trimmed_path, <<>>)

\* One entry of a directory listing: pushed when it is a bundle whose canonical
\* path is valid UTF-8 and has a file stem.
CollectEntry(apps, candidate_path) ==
    IF ~is_valid_app_bundle_path(candidate_path) THEN apps
    ELSE LET path_string == CanonicalStr(candidate_path)
         IN  IF ~path_string.some THEN apps
             ELSE LET bundle_name == bundle_name_from_app_path(path_string.v)
                  IN  IF ~bundle_name.some THEN apps
                      ELSE Append(apps, RegisteredApp(bundle_name.v, path_string.v))

RECURSIVE CollectLoop(_, _)
CollectLoop(apps, entries) ==
    IF entries = <<>> THEN apps
    ELSE CollectLoop(CollectEntry(apps, Head(entries)), Tail(entries))

\* entries: the directory's entries in the order read_dir yields them;
\* readable: whether read_dir succeeds.
collect_apps_from_directory(directory, apps, entries, readable) ==
    IF directory \notin fsRoots THEN apps
    ELSE IF ~readable THEN apps
    ELSE CollectLoop(apps, entries)

scan_installed_apps(systemEntries, userEntries, unreadable) ==
    LET fromSystem ==
            collect_apps_from_directory(SystemRoot, <<>>, systemEntries,
                                        SystemRoot \notin unreadable)
        discovered_apps ==
            IF home.some
            THEN collect_apps_from_directory(Join(home.v, Applications), fromSystem,
                                             userEntries, UserRoot \notin unreadable)
            ELSE fromSystem
    IN  sort_and_dedupe_apps(discovered_apps)

---------------------------------------------------------------------------
(* The liveness matcher *)

BundleSegmentTail ==
    <<".", "a", "p", "p", "/", "c", "o", "n", "t", "e", "n", "t", "s", "/", "m", "a", "c", "o", 
      "s", "/">>
SidecarMarker == <<"/", "b", "a", "c", "k", "e", "n", "d", "-", "s", "i", "d", "e", "c", "a", "r">>

\* The line counts whenever it holds the bundle's segment, a sidecar's or not.
is_launchable_app_process_line_with_sidecar(command_line, bundle_name) ==
    LET normalized_line == to_ascii_lowercase(Trim(command_line))
        bundle_segment == <<"/">> \o bundle_name \o BundleSegmentTail
    IN  IF normalized_line = <<>> THEN FALSE
        ELSE Contains(normalized_line, to_ascii_lowercase(bundle_segment))

is_launchable_app_process_line(command_line, bundle_name) ==
    LET normalized_line == to_ascii_lowercase(Trim(command_line))
        bundle_segment == <<"/">> \o bundle_name \o BundleSegmentTail
    IN  IF normalized_line = <<>> THEN FALSE
        ELSE IF ~Contains(normalized_line, to_ascii_lowercase(bundle_segment)) THEN FALSE
        ELSE ~Contains(normalized_line, SidecarMarker)

\* str::lines: the text split at each line feed, a carriage return before the line
\* feed dropped, no empty line after the last line feed.
Lines(text) ==
    LET feeds == {i \in 1..Len(text) : text[i] = "\n"}
        \* the ends of the lines: the line feeds, and the end of an unterminated text
        ends == feeds \cup (IF text # <<>> /\ text[Len(text)] # "\n" THEN {Len(text) + 1} ELSE {})
        EndOf(k) == CHOOSE e \in ends : Cardinality({f \in ends : f < e}) = k - 1
        StartOf(k) == IF k = 1 THEN 1 ELSE EndOf(k - 1) + 1
        Line(k) ==
            IF EndOf(k) \in feeds /\ EndOf(k) > StartOf(k) /\ text[EndOf(k) - 1] = "\r"
            THEN SubSeq(text, StartOf(k), EndOf(k) - 2)
            ELSE SubSeq(text, StartOf(k), EndOf(k) - 1)
    IN  [k \in 1..Cardinality(ends) |-> Line(k)]

is_app_running_in_commands(bundle_name, commands) ==
    LET lines == Lines(commands)
    IN  \E i \in 1..Len(lines) : is_launchable_app_process_line(lines[i], bundle_name)

\* The text of lines, each ended by a line feed.
RECURSIVE Unlines(_)
Unlines(lines) ==
    IF lines = <<>> THEN <<>> ELSE Head(lines) \o <<"\n">> \o Unlines(Tail(lines))

---------------------------------------------------------------------------
(* The process table and its snapshot *)

MacOSDir == <<"/", "C", "o", "n", "t", "e", "n", "t", "s", "/", "M", "a", "c", "O", "S", "/">>
ProcD == PathD \o MacOSDir \o <<"D", "u", "g", "o", "u", "t">>
ProcDSidecar ==
    PathD \o MacOSDir \o <<"b", "a", "c", "k", "e", "n", "d", "-", "s", "i", "d", "e", "c", "a", "r", " ", "-", "-", 
      "p", "o", "r", "t", " ", "7", "0", "0", "1">>
ProcC == PathC \o MacOSDir \o <<"C", "o", "m", "p", "a", "n", "i", "o", "n">>

\* The processes that start and exit, in the order ps lists them.
ProcOrder == <<ProcD, ProcDSidecar, ProcC>>

\* What "ps -axo command" prints for a process table: the header, then a line for
\* each process.
PsOutput(table) ==
    Unlines(<<<<"C", "O", "M", "M", "A", "N", "D">>>> \o SelectSeq(ProcOrder, LAMBDA p : p \in table))

\* The outcomes of running ps: it prints the table and exits 0, it cannot be
\* started, or it exits non-zero.
PsOutcomes == {"ok", "spawn_failed", "exit_nonzero"}

\* The exit status of ps is not looked at.
read_process_commands_snapshot_unfiltered(outcome) ==
    IF outcome = "spawn_failed" THEN <<>> ELSE PsOutput(procs)

read_process_commands_snapshot(outcome) ==
    IF outcome = "ok" THEN PsOutput(procs) ELSE <<>>

\* The closure of get_running_registered_apps: one path against the snapshot.
RunningRegisteredApp(path, commands) ==
    LET bundle_name == bundle_name_from_app_path(path)
    IN  [path |-> path,
         running |-> IF bundle_name.some
                     THEN is_app_running_in_commands(bundle_name.v, commands)
                     ELSE FALSE]

\* get_running_apps: the three known applications against one snapshot.
get_running_apps(outcome) ==
    LET commands == read_process_commands_snapshot(outcome)
    IN  [companion |-> is_app_running_in_commands(<<"C", "o", "m", "p", "a", "n", "i", "o", "n">>, commands),
         dugout |-> is_app_running_in_commands(<<"D", "u", "g", "o", "u", "t">>, commands),
         hmm |-> is_app_running_in_commands(<<"H", "M", " ", "A", "d", "m", "i", "n", " ", "C", "o", "n", "s", "o", "l", "e">>, commands)]

get_running_registered_apps(paths, outcome) ==
    LET commands == read_process_commands_snapshot(outcome)
    IN  [i \in 1..Len(paths) |-> RunningRegisteredApp(paths[i], commands)]

---------------------------------------------------------------------------
(* The signal bus reader *)

\* serde_json::Value, as far as parse_signal_from_line looks into it.
JsonNumber(n) == [t |-> "number", n |-> n, s |-> "", o |-> <<>>]
JsonString(str) == [t |-> "string", n |-> 0, s |-> str, o |-> <<>>]
JsonObject(fields) == [t |-> "object", n |-> 0, s |-> "", o |-> fields]

\* Value::get(key): the member of an object, None for a missing key or another value.
JsonGet(value, key) ==
    IF value.t = "object" /\ key \in DOMAIN value.o THEN Some(value.o[key]) ELSE None

\* Value::as_f64, Value::as_str
as_f64(value) == IF value.t = "number" THEN Some(value.n) ELSE None
as_str(value) == IF value.t = "string" THEN Some(value.s) ELSE None

\* A line of a file: its text, whether its bytes are valid UTF-8, and what
\* serde_json::from_str makes of the text (None: not JSON).
Line(text, utf8, parsed) == [text |-> text, utf8 |-> utf8, parsed |-> parsed]

CciSignal(value, timestamp, label) ==
    [value |-> value, timestamp |-> timestamp, label |-> label]

\* A file of lines, a missing file, and a file that cannot be opened.
TextFile(lines) == [state |-> "text", lines |-> lines]
UnopenableFile == [state |-> "unopenable", lines |-> <<>>]

\* The loop of read_last_signal_line: a line that cannot be read ends the read with
\* None; a line that is not blank replaces the line kept.
RECURSIVE LastLineLoop(_, _)
LastLineLoop(last_line, lines) ==
    IF lines = <<>> THEN last_line
    ELSE IF ~Head(lines).utf8 THEN None
    ELSE IF Trim(Head(lines).text) # <<>> THEN LastLineLoop(Some(Head(lines)), Tail(lines))
    ELSE LastLineLoop(last_line, Tail(lines))

read_last_signal_line(file) ==
    IF file.state = "absent" THEN None
    ELSE IF file.state = "unopenable" THEN None
    ELSE LastLineLoop(None, file.lines)

parse_signal_from_line(line) ==
    IF ~line.parsed.some THEN None
    ELSE
    LET parsed == line.parsed.v
        value == IF JsonGet(parsed, "value").some THEN as_f64(JsonGet(parsed, "value").v) ELSE None
        timestamp ==
            IF JsonGet(parsed, "timestamp").some THEN as_str(JsonGet(parsed, "timestamp").v)
            ELSE None
        label == IF JsonGet(parsed, "label").some THEN as_str(JsonGet(parsed, "label").v) ELSE None
    IN  IF ~value.some THEN None
        ELSE IF ~timestamp.some THEN None
        ELSE IF ~label.some THEN None
        ELSE Some(CciSignal(value.v, timestamp.v, label.v))

read_signal_file(file) ==
    LET last_line == read_last_signal_line(file)
    IN  IF ~last_line.some THEN None ELSE parse_signal_from_line(last_line.v)

\* dirOk: whether fs::create_dir_all of the cci-bus directory succeeds.
read_cci_signals(dirOk) ==
    IF ~home.some THEN Err("Could not resolve HOME")
    ELSE IF ~dirOk THEN Err("Failed to create cci-bus directory")
    ELSE Ok([companion |-> read_signal_file(sigFiles["companion"]),
             dugout |-> read_signal_file(sigFiles["dugout"]),
             hmm |-> read_signal_file(sigFiles["hmm"])])

---------------------------------------------------------------------------
(* The registry as a state machine *)

\* io: the failures the operating system dealt the command, for the commands that
\* are to survive them.
NoCall ==
    [op |-> "none", path |-> <<>>, name |-> None, ok |-> TRUE, value |-> <<>>, err |-> "",
     before |-> Absent, fs |-> {}, normalized_path |-> <<>>, normalized_name |-> <<>>,
     io |-> {}]

Returned(op, path, name, out) ==
    [op |-> op, path |-> path, name |-> name, ok |-> out.res.ok, value |-> out.res.v,
     err |-> out.res.err, before |-> disk, fs |-> fsDirs,
     normalized_path |-> out.normalized_path, normalized_name |-> out.normalized_name,
     io |-> {}]

AddPaths == {Blank, <<" ">> \o PathD \o <<" ">>, PathDLower, PathC, PathL, PathU, PathF}
AddNames == {None, Some(Blank), Some(NameZPadded)}
RemovePaths == {Blank, <<" ">> \o PathD \o <<" ">>, PathDOther, PathC, PathL}

FnIdle == fnIn = <<>> /\ fnOut = <<>>

BatchIdle ==
    [pc |-> "idle", paths |-> <<>>, commands |-> <<>>, result |-> <<>>,
     table |-> {}, outcome |-> "ok", captures |-> 0]

LiveIdle == procs = {} /\ batch = BatchIdle

SignalKeys == {"companion", "dugout", "hmm"}

AbsentFile == [state |-> "absent", lines |-> <<>>]

SigIdle == sigFiles = [k \in SignalKeys |-> AbsentFile]

\* The launcher processes that share one registry file.
Callers == {"first", "second"}

NotCalled ==
    [pc |-> "idle", op |-> "none", path |-> <<>>, name |-> None,
     normalized_path |-> <<>>, normalized_name |-> <<>>, loaded |-> <<>>,
     seen |-> Absent, readAt |-> 0, ok |-> TRUE, value |-> <<>>, err |-> ""]

RaceIdle == calls = [c \in Callers |-> NotCalled] /\ log = <<>>

Init ==
    /\ RaceIdle
    /\ FnIdle
    /\ LiveIdle
    /\ SigIdle
    /\ home \in {None, Some(HomeDir)}
    /\ fsRoots = {SystemRoot, UserRoot}
    /\ fsDirs = Bundles
    /\ disk = Absent
    /\ ret = NoCall

GetRegisteredApps ==
    \E fault \in {"none", "read"} :
        /\ ret' = Returned("get", <<>>, None,
                           Outcome(read_registered_apps(fault # "read"), disk, <<>>, <<>>))
        /\ UNCHANGED <<home, fsRoots, fsDirs, disk>>

AddRegisteredApp ==
    \E path \in AddPaths, name \in AddNames, fault \in Faults :
        LET out == add_registered_app(path, name, fault)
        IN  /\ disk' = out.file
            /\ ret' = Returned("add", path, name, out)
            /\ UNCHANGED <<home, fsRoots, fsDirs>>

RemoveRegisteredApp ==
    \E path \in RemovePaths, fault \in Faults :
        LET out == remove_registered_app(path, fault)
        IN  /\ disk' = out.file
            /\ ret' = Returned("remove", path, None, out)
            /\ UNCHANGED <<home, fsRoots, fsDirs>>

ScanInstalledApps ==
    \E systemEntries \in Orderings(Children(SystemRoot)),
       userEntries \in Orderings(Children(UserRoot)),
       unreadable \in {{}, {SystemRoot}, {UserRoot}} :
        /\ ret' = [Returned("scan", <<>>, None,
                            Outcome(Ok(scan_installed_apps(systemEntries, userEntries, unreadable)),
                                    disk, <<>>, <<>>))
                    EXCEPT !.io = unreadable]
        /\ UNCHANGED <<home, fsRoots, fsDirs, disk>>

\* The user installs or deletes a bundle while the launcher runs.
InstallBundle ==
    \E b \in Removable \ fsDirs :
        /\ fsDirs' = fsDirs \cup {b}
        /\ UNCHANGED <<home, fsRoots, disk, ret>>

UninstallBundle ==
    \E b \in Removable \cap fsDirs :
        /\ fsDirs' = fsDirs \ {b}
        /\ UNCHANGED <<home, fsRoots, disk, ret>>

Next ==
    \/ GetRegisteredApps /\ UNCHANGED <<fnVars, liveVars, sigFiles, raceVars>>
    \/ AddRegisteredApp /\ UNCHANGED <<fnVars, liveVars, sigFiles, raceVars>>
    \/ RemoveRegisteredApp /\ UNCHANGED <<fnVars, liveVars, sigFiles, raceVars>>
    \/ ScanInstalledApps /\ UNCHANGED <<fnVars, liveVars, sigFiles, raceVars>>
    \/ InstallBundle /\ UNCHANGED <<fnVars, liveVars, sigFiles, raceVars>>
    \/ UninstallBundle /\ UNCHANGED <<fnVars, liveVars, sigFiles, raceVars>>

Spec == Init /\ [][Next]_vars

---------------------------------------------------------------------------
(* The registry: the claims *)

\* The entries in ascending order of name, then of path, ASCII case ignored.
SortedByNameThenPath(apps) ==
    \A i, j \in 1..Len(apps) :
        i < j =>
            LET names == StrCmp(to_ascii_lowercase(apps[i].name), to_ascii_lowercase(apps[j].name))
                paths == StrCmp(to_ascii_lowercase(apps[i].path), to_ascii_lowercase(apps[j].path))
            IN  names = "Less" \/ (names = "Equal" /\ paths # "Greater")

NoTwoWithOnePath(apps) ==
    \A i, j \in 1..Len(apps) :
        i # j => to_ascii_lowercase(apps[i].path) # to_ascii_lowercase(apps[j].path)

Normalized(apps) == NoTwoWithOnePath(apps) /\ SortedByNameThenPath(apps)

Entries(apps) == {apps[i] : i \in 1..Len(apps)}

\* C1: after any sequence of get_registered_apps, add_registered_app,
\* remove_registered_app and scan_installed_apps calls, the registry file and every
\* list a command returns hold no two entries with case-insensitively equal paths
\* and are sorted by case-insensitive name, then case-insensitive path.
C1_RegistryNormalized ==
    /\ disk.state = "json" => Normalized(disk.apps)
    /\ ret.op \in {"get", "add", "remove", "scan"} /\ ret.ok => Normalized(ret.value)

\* An add put its entry in front of an entry registered before it, and a scan
\* collapsed two discoveries of one path.
C1_Witness ==
    \/ /\ ret.op = "add" /\ ret.ok
       /\ disk.state = "json" /\ Len(disk.apps) = 2
       /\ Len(ret.before.apps) = 1
       /\ disk.apps[1].path = ret.normalized_path
    \/ /\ ret.op = "scan"
       /\ Len(ret.value) = 2
       /\ ret.fs = Bundles

\* C2: whenever add_registered_app or remove_registered_app returns an error, the
\* registry file is exactly what it was before the call.
C2_ErrorLeavesRegistryUnchanged ==
    ret.op \in {"add", "remove"} /\ ~ret.ok => disk = ret.before

\* C3: a successful add_registered_app whose normalized path is, case ignored, the
\* path of a registered entry does not add an entry: the result holds exactly one
\* entry for the path, with the new name; every entry with another path is kept
\* unchanged; the list returned is the sorted registry that was written.
C3_AddOverwritesInPlace ==
    LET old == ret.before.apps
        new_app == RegisteredApp(ret.normalized_name, ret.normalized_path)
    IN  (/\ ret.op = "add" /\ ret.ok
         /\ \E i \in 1..Len(old) : eq_ignore_ascii_case(old[i].path, ret.normalized_path))
        => /\ Len(ret.value) <= Len(old)
           /\ Cardinality({k \in 1..Len(ret.value) :
                    eq_ignore_ascii_case(ret.value[k].path, ret.normalized_path)}) = 1
           /\ new_app \in Entries(ret.value)
           /\ ret.name.some => ret.normalized_name = Trim(ret.name.v)
           /\ \A e \in Entries(old) :
                ~eq_ignore_ascii_case(e.path, ret.normalized_path) => e \in Entries(ret.value)
           /\ Entries(ret.value) \subseteq Entries(old) \cup {new_app}
           /\ SortedByNameThenPath(ret.value)
           /\ disk = Json(ret.value)

\* An add gave a new name and a new spelling to the path of one of two entries.
C3_Witness ==
    /\ ret.op = "add" /\ ret.ok
    /\ Len(ret.before.apps) = 2
    /\ \E i \in 1..Len(ret.before.apps) :
        /\ eq_ignore_ascii_case(ret.before.apps[i].path, ret.normalized_path)
        /\ ret.before.apps[i].path # ret.normalized_path
        /\ ret.before.apps[i].name # ret.normalized_name

RemoveErrors ==
    {"Could not resolve HOME", "Failed to read app registry", "Failed to parse app registry",
     "Failed to create app registry directory", "Failed to write app registry"}

\* C4: a successful remove_registered_app removes every entry whose path is the
\* trimmed input, case ignored, keeps every other entry, writes and returns the
\* result; the input is not normalized, so no remove of a non-blank path fails for
\* the bundle's sake, installed or not.
C4_RemoveByTrimmedPath ==
    ret.op = "remove" =>
        /\ ret.ok =>
            /\ Entries(ret.value) =
                    {e \in Entries(ret.before.apps) : ~eq_ignore_ascii_case(e.path, Trim(ret.path))}
            /\ Len(ret.value) = Cardinality(Entries(ret.value))
            /\ disk = Json(ret.value)
        /\ (~ret.ok /\ Trim(ret.path) # <<>>) => ret.err \in RemoveErrors

\* A remove took out the entry of a bundle that is no longer installed, and one
\* took out an entry spelled in another case than its argument, keeping the other.
C4_Witness ==
    /\ ret.op = "remove" /\ ret.ok
    /\ Len(ret.before.apps) = 2 /\ Len(ret.value) = 1
    /\ \/ ret.path = PathC /\ PathC \notin ret.fs
       \/ ret.path = PathDOther

RegIdle ==
    /\ home = Some(HomeDir)
    /\ fsRoots = {SystemRoot, UserRoot}
    /\ fsDirs = Bundles
    /\ disk = Absent
    /\ ret = NoCall

---------------------------------------------------------------------------
(* sort_and_dedupe_apps as a function of its argument *)

InitDedupe ==
    /\ RaceIdle
    /\ fnIn \in SeqsUpTo(AppPool, MaxApps)
    /\ fnOut = <<>>
    /\ RegIdle
    /\ LiveIdle
    /\ SigIdle

\* Apply sort_and_dedupe_apps to the input, then to its own output.
ApplyDedupe ==
    /\ Len(fnOut) < 2
    /\ fnOut' = Append(fnOut, sort_and_dedupe_apps(IF fnOut = <<>> THEN fnIn ELSE fnOut[1]))
    /\ UNCHANGED fnIn

NextDedupe == ApplyDedupe /\ UNCHANGED <<regVars, liveVars, sigFiles, raceVars>>

SpecDedupe == InitDedupe /\ [][NextDedupe]_vars

\* The position of the last input entry with this path, ASCII case ignored.
LastWithPath(apps, path) ==
    CHOOSE j \in 1..Len(apps) :
        /\ eq_ignore_ascii_case(apps[j].path, path)
        /\ \A k \in (j + 1)..Len(apps) : ~eq_ignore_ascii_case(apps[k].path, path)

\* C5: sort_and_dedupe_apps keeps exactly one entry per distinct case-insensitive
\* path, that entry is the last-positioned input entry with the path (name and path
\* spelling), and the result has as many entries as the input has distinct
\* case-insensitive paths.
C5_LastWinsOnePerPath ==
    Len(fnOut) >= 1 =>
        LET out == fnOut[1]
        IN  /\ \A i \in 1..Len(fnIn) :
                /\ Cardinality({k \in 1..Len(out) :
                        to_ascii_lowercase(out[k].path) = to_ascii_lowercase(fnIn[i].path)}) = 1
                /\ \E k \in 1..Len(out) : out[k] = fnIn[LastWithPath(fnIn, fnIn[i].path)]
            /\ Len(out) = Cardinality({to_ascii_lowercase(fnIn[i].path) : i \in 1..Len(fnIn)})

\* An input with a path collision in two spellings and two names has been deduped.
C5_Witness ==
    /\ Len(fnOut) >= 1
    /\ \E i, j \in 1..Len(fnIn) :
        /\ i < j
        /\ fnIn[i].path # fnIn[j].path
        /\ eq_ignore_ascii_case(fnIn[i].path, fnIn[j].path)
        /\ fnIn[i].name # fnIn[j].name
    /\ Len(fnOut[1]) = 2

\* C6: sort_and_dedupe_apps is idempotent: applied to its own output it returns
\* that output, entry for entry and in the same order.
C6_Idempotent ==
    Len(fnOut) = 2 => fnOut[2] = fnOut[1]

\* The step was applied twice to an input it had to reorder and to dedupe.
C6_Witness ==
    /\ Len(fnOut) = 2
    /\ Len(fnIn) = 3
    /\ Len(fnOut[1]) = 2
    /\ fnOut[1][1] # fnIn[1]

---------------------------------------------------------------------------
(* is_app_running_in_commands as a function of its arguments *)

\* The most lines a snapshot of the matcher's check holds.
MaxLines == 2

NameDugout == <<"D", "u", "g", "o", "u", "t">>

MatcherNames == {NameDugout, <<"d", "u", "g", "o", "u", "t">>, <<"H", " ", "M">>}

ProcUpper ==
    <<" ", " ", "/", "O", "P", "T", "/", "D", "U", "G", "O", "U", "T", ".", "A", "P", "P", "/", 
      "C", "O", "N", "T", "E", "N", "T", "S", "/", "M", "A", "C", "O", "S", "/", "D", "U", "G", 
      "O", "U", "T", " ", " ">>
ProcMyDugout ==
    <<"/", "A", "p", "p", "l", "i", "c", "a", "t", "i", "o", "n", "s", "/", "M", "y", " ", "D", 
      "u", "g", "o", "u", "t", ".", "a", "p", "p", "/", "C", "o", "n", "t", "e", "n", "t", "s", 
      "/", "M", "a", "c", "O", "S", "/", "D", "u", "g", "o", "u", "t">>
ProcHM ==
    <<"/", "A", "p", "p", "l", "i", "c", "a", "t", "i", "o", "n", "s", "/", "H", " ", "M", ".", 
      "a", "p", "p", "/", "C", "o", "n", "t", "e", "n", "t", "s", "/", "M", "a", "c", "O", "S", 
      "/", "a", "p", "p">>
ProcResources == PathD \o <<"/", "C", "o", "n", "t", "e", "n", "t", "s", "/", "R", "e", "s", "o", "u", "r", "c", 
          "e", "s", "/", "D", "u", "g", "o", "u", "t">>

LinePool == {ProcD, ProcDSidecar, ProcUpper, ProcMyDugout, ProcHM, ProcResources, Blank}

\* The text of the lines, each followed by eol, the last one only if terminated.
SnapshotText(lines, eol, terminated) ==
    LET RECURSIVE Cat(_)
        Cat(ls) == IF ls = <<>> THEN <<>> ELSE Head(ls) \o eol \o Cat(Tail(ls))
        text == Cat(lines)
    IN  IF terminated \/ lines = <<>> THEN text
        ELSE SubSeq(text, 1, Len(text) - Len(eol))

InitMatcher ==
    /\ RaceIdle
    /\ fnIn \in [bundle_name : MatcherNames,
                 lines : SeqsUpTo(LinePool, MaxLines),
                 eol : {<<"\n">>, <<"\r", "\n">>},
                 terminated : BOOLEAN]
    /\ fnOut = <<>>
    /\ RegIdle
    /\ LiveIdle
    /\ SigIdle

ApplyMatcher ==
    /\ fnOut = <<>>
    /\ fnOut' = <<is_app_running_in_commands(
                    fnIn.bundle_name, SnapshotText(fnIn.lines, fnIn.eol, fnIn.terminated))>>
    /\ UNCHANGED fnIn

NextMatcher == ApplyMatcher /\ UNCHANGED <<regVars, liveVars, sigFiles, raceVars>>

SpecMatcher == InitMatcher /\ [][NextMatcher]_vars

\* pat occurs in s.
HasSubstring(s, pat) ==
    \E i \in 1..(Len(s) - Len(pat) + 1) : \A k \in 1..Len(pat) : s[i + k - 1] = pat[k]

C7_TokenTail ==
    <<".", "a", "p", "p", "/", "c", "o", "n", "t", "e", "n", "t", "s", "/", "m", "a", "c", "o", 
      "s", "/">>
C7_Sidecar == <<"/", "b", "a", "c", "k", "e", "n", "d", "-", "s", "i", "d", "e", "c", "a", "r">>

\* C7: is_app_running_in_commands(bundleName, snapshot) is true exactly when some
\* line of the snapshot, trimmed and lowercased, is not empty, holds the lowercased
\* token "/{bundleName}.app/contents/macos/" and does not hold "/backend-sidecar".
C7_RunningIffSomeLineMatches ==
    fnOut # <<>> =>
        (fnOut[1] <=>
            \E i \in 1..Len(fnIn.lines) :
                LET line == to_ascii_lowercase(Trim(fnIn.lines[i]))
                    token == <<"/">> \o to_ascii_lowercase(fnIn.bundle_name) \o C7_TokenTail
                IN  /\ line # <<>>
                    /\ HasSubstring(line, token)
                    /\ ~HasSubstring(line, C7_Sidecar))

\* The bundle's sidecar, started with arguments, and another bundle's process are
\* the two lines of the snapshot, and the bundle does not count as running.
C7_Witness ==
    /\ fnOut = <<FALSE>>
    /\ fnIn.bundle_name = NameDugout
    /\ fnIn.lines = <<ProcDSidecar, ProcMyDugout>>

---------------------------------------------------------------------------
(* get_running_registered_apps while processes start and exit *)

\* The longest list of paths one batch call is given.
MaxPaths == 2

BatchPaths == {PathD, PathC, <<"/">>}

InitBatch ==
    /\ RaceIdle
    /\ FnIdle
    /\ RegIdle
    /\ SigIdle
    /\ procs \in SUBSET Range(ProcOrder)
    /\ batch = BatchIdle

\* The call begins: the snapshot is captured before the paths are mapped.
BatchCall ==
    /\ batch.pc \in {"idle", "done"}
    /\ \E paths \in SeqsUpTo(BatchPaths, MaxPaths), outcome \in PsOutcomes :
        batch' = [pc |-> "map", paths |-> paths,
                  commands |-> read_process_commands_snapshot(outcome), result |-> <<>>,
                  table |-> procs, outcome |-> outcome, captures |-> 1]
    /\ UNCHANGED procs

\* The next path is matched against the process table as it is now.
BatchEvalLive ==
    /\ batch.pc = "map"
    /\ Len(batch.result) < Len(batch.paths)
    /\ batch' = [batch EXCEPT
            !.result = Append(batch.result,
                              RunningRegisteredApp(batch.paths[Len(batch.result) + 1],
                                                   read_process_commands_snapshot("ok"))),
            !.captures = batch.captures + 1]
    /\ UNCHANGED procs

\* The next path is matched against the snapshot.
BatchEval ==
    /\ batch.pc = "map"
    /\ Len(batch.result) < Len(batch.paths)
    /\ batch' = [batch EXCEPT
            !.result = Append(batch.result,
                              RunningRegisteredApp(batch.paths[Len(batch.result) + 1],
                                                   batch.commands))]
    /\ UNCHANGED procs

\* The collected list is returned.
BatchReturn ==
    /\ batch.pc = "map"
    /\ Len(batch.result) = Len(batch.paths)
    /\ batch' = [batch EXCEPT !.pc = "done"]
    /\ UNCHANGED procs

\* A process starts or exits, at any time.
ProcessStarts ==
    \E p \in Range(ProcOrder) \ procs :
        /\ procs' = procs \cup {p}
        /\ UNCHANGED batch

ProcessExits ==
    \E p \in procs :
        /\ procs' = procs \ {p}
        /\ UNCHANGED batch

NextBatch ==
    \/ BatchCall /\ UNCHANGED <<fnVars, regVars, sigFiles, raceVars>>
    \/ BatchEval /\ UNCHANGED <<fnVars, regVars, sigFiles, raceVars>>
    \/ BatchReturn /\ UNCHANGED <<fnVars, regVars, sigFiles, raceVars>>
    \/ ProcessStarts /\ UNCHANGED <<fnVars, regVars, sigFiles, raceVars>>
    \/ ProcessExits /\ UNCHANGED <<fnVars, regVars, sigFiles, raceVars>>

SpecBatch == InitBatch /\ [][NextBatch]_vars

\* Whether the path's bundle has a process that counts in this process table.
RunningIn(path, table) ==
    /\ bundle_name_from_app_path(path).some
    /\ \E p \in table : is_launchable_app_process_line(p, bundle_name_from_app_path(path).v)

\* C8: one get_running_registered_apps call captures the process table once, before
\* it evaluates any path, and evaluates every path against that snapshot: the
\* flags returned are those of the process table at the instant of the capture
\* (all false when the capture failed), whatever started or exited meanwhile, one
\* {path, running} pair per input path, in input order.
C8_OneSnapshotPerBatch ==
    batch.pc = "done" =>
        /\ batch.captures = 1
        /\ Len(batch.result) = Len(batch.paths)
        /\ \A i \in 1..Len(batch.paths) :
            /\ batch.result[i].path = batch.paths[i]
            /\ batch.result[i].running =
                    (batch.outcome = "ok" /\ RunningIn(batch.paths[i], batch.table))

\* A batch of two paths returned: the first bundle counts as running though its
\* process has exited since the capture, the second does not though it has started.
C8_Witness ==
    /\ batch.pc = "done"
    /\ batch.paths = <<PathD, PathC>>
    /\ batch.result[1].running /\ ~batch.result[2].running
    /\ ProcD \notin procs /\ ProcC \in procs

---------------------------------------------------------------------------
(* read_cci_signals over the contents of the signal files *)

\* The most lines the signal file under study holds.
MaxSignalLines == 3

Good1 ==
    Line(<<"{", "\"", "v", "a", "l", "u", "e", "\"", ":", "1", ",", "\"", "t", "i", "m", "e", 
          "s", "t", "a", "m", "p", "\"", ":", "\"", "t", "1", "\"", ",", "\"", "l", "a", "b", 
          "e", "l", "\"", ":", "\"", "l", "1", "\"", "}">>, TRUE,
         Some(JsonObject([value |-> JsonNumber(1), timestamp |-> JsonString("t1"),
                          label |-> JsonString("l1")])))
Good2 ==
    Line(<<" ", "{", "\"", "v", "a", "l", "u", "e", "\"", ":", "2", ",", "\"", "t", "i", "m", 
          "e", "s", "t", "a", "m", "p", "\"", ":", "\"", "t", "\"", ",", "\"", "l", "a", "b", 
          "e", "l", "\"", ":", "\"", "l", "\"", "}">>, TRUE,
         Some(JsonObject([value |-> JsonNumber(2), timestamp |-> JsonString("t"),
                          label |-> JsonString("l")])))
NotJson == Line(<<"v", "a", "l", "u", "e", "=", "3">>, TRUE, None)
NoLabel ==
    Line(<<"{", "\"", "v", "a", "l", "u", "e", "\"", ":", "4", ",", "\"", "t", "i", "m", "e", 
          "s", "t", "a", "m", "p", "\"", ":", "\"", "t", "4", "\"", "}">>, TRUE,
         Some(JsonObject([value |-> JsonNumber(4), timestamp |-> JsonString("t4")])))
ValueIsString ==
    Line(<<"{", "\"", "v", "a", "l", "u", "e", "\"", ":", "\"", "5", "\"", ",", "\"", "t", "i", 
          "m", "e", "s", "t", "a", "m", "p", "\"", ":", "\"", "t", "5", "\"", ",", "\"", "l", 
          "a", "b", "e", "l", "\"", ":", "\"", "l", "5", "\"", "}">>, TRUE,
         Some(JsonObject([value |-> JsonString("5"), timestamp |-> JsonString("t5"),
                          label |-> JsonString("l5")])))
BareNumber == Line(<<"6">>, TRUE, Some(JsonNumber(6)))
BlankLine == Line(Blank, TRUE, None)
\* A line whose bytes are not valid UTF-8: BufRead::lines yields an error for it.
BadUtf8 == Line(<<"?">>, FALSE, None)

SignalLinePool == {Good1, Good2, NotJson, NoLabel, ValueIsString, BareNumber, BlankLine, BadUtf8}

StudyFiles ==
    {AbsentFile, UnopenableFile}
        \cup {TextFile(lines) : lines \in SeqsUpTo(SignalLinePool, MaxSignalLines)}

OtherFiles == {AbsentFile, TextFile(<<Good1>>), TextFile(<<Good1, NotJson>>)}

InitSignals ==
    /\ RaceIdle
    /\ FnIdle
    /\ LiveIdle
    /\ RegIdle
    /\ \E k \in SignalKeys, study \in StudyFiles, others \in [SignalKeys -> OtherFiles] :
        sigFiles = [x \in SignalKeys |-> IF x = k THEN study ELSE others[x]]

ReadCciSignals ==
    \E dirOk \in BOOLEAN :
        /\ ret' = [Returned("signals", <<>>, None,
                            Outcome(read_cci_signals(dirOk), disk, <<>>, <<>>))
                    EXCEPT !.io = IF dirOk THEN {} ELSE {"create_dir_failed"}]
        /\ UNCHANGED <<home, fsRoots, fsDirs, disk, sigFiles>>

NextSignals == ReadCciSignals /\ UNCHANGED <<fnVars, liveVars, raceVars>>

SpecSignals == InitSignals /\ [][NextSignals]_vars

\* The line is a JSON object with a numeric value, a string timestamp, a string label.
WellFormed(line) ==
    /\ line.utf8
    /\ line.parsed.some
    /\ line.parsed.v.t = "object"
    /\ {"value", "timestamp", "label"} \subseteq DOMAIN line.parsed.v.o
    /\ line.parsed.v.o["value"].t = "number"
    /\ line.parsed.v.o["timestamp"].t = "string"
    /\ line.parsed.v.o["label"].t = "string"

SignalOf(line) ==
    CciSignal(line.parsed.v.o["value"].n, line.parsed.v.o["timestamp"].s,
              line.parsed.v.o["label"].s)

\* The positions of the lines of a file that are not blank.
NonBlank(file) == {i \in 1..Len(file.lines) : Trim(file.lines[i].text) # <<>>}

LastNonBlank(file) == CHOOSE i \in NonBlank(file) : \A j \in NonBlank(file) : j <= i

\* What the last non-blank line of the file says: its signal, or no signal.
ExpectedSignal(file) ==
    IF file.state # "text" \/ NonBlank(file) = {} THEN None
    ELSE IF WellFormed(file.lines[LastNonBlank(file)])
         THEN Some(SignalOf(file.lines[LastNonBlank(file)]))
         ELSE None

\* C10: the signal reported for each file is the one of its last non-blank line,
\* whatever lines come before and whatever blank lines after; when that line is
\* not a JSON object with a numeric value, a string timestamp and a string label,
\* the file has no signal; the other files' signals are reported all the same.
C10_LastNonBlankLineDecides ==
    ret.op = "signals" /\ ret.ok =>
        \A k \in SignalKeys : ret.value[k] = ExpectedSignal(sigFiles[k])

\* C10 for the files all of whose lines are valid UTF-8; a file with a line that is
\* not reports no signal.
C10_WhenEveryLineIsText ==
    ret.op = "signals" /\ ret.ok =>
        \A k \in SignalKeys :
            ret.value[k] =
                IF \A i \in 1..Len(sigFiles[k].lines) : sigFiles[k].lines[i].utf8
                THEN ExpectedSignal(sigFiles[k])
                ELSE None

---------------------------------------------------------------------------
(* The best-effort commands under a failing environment *)

InitBestEffort ==
    /\ RaceIdle
    /\ FnIdle
    /\ home \in {None, Some(HomeDir)}
    /\ fsRoots \in SUBSET {SystemRoot, UserRoot}
    /\ fsDirs = Bundles
    /\ disk = Absent
    /\ ret = NoCall
    /\ procs \in {{}, Range(ProcOrder)}
    /\ batch = BatchIdle
    /\ \E k \in SignalKeys, file \in {AbsentFile, UnopenableFile, TextFile(<<Good1>>)} :
           sigFiles = [x \in SignalKeys |-> IF x = k THEN file ELSE TextFile(<<Good2>>)]

GetRunningApps ==
    \E outcome \in PsOutcomes :
        /\ ret' = [Returned("running_apps", <<>>, None,
                            Outcome(Ok(get_running_apps(outcome)), disk, <<>>, <<>>))
                    EXCEPT !.io = {outcome} \ {"ok"}]
        /\ UNCHANGED <<home, fsRoots, fsDirs, disk>>

GetRunningRegisteredApps ==
    \E paths \in SeqsUpTo(BatchPaths, MaxPaths), outcome \in PsOutcomes :
        /\ ret' = [Returned("running_registered", paths, None,
                            Outcome(Ok(get_running_registered_apps(paths, outcome)),
                                    disk, <<>>, <<>>))
                    EXCEPT !.io = {outcome} \ {"ok"}]
        /\ UNCHANGED <<home, fsRoots, fsDirs, disk>>

NextBestEffort ==
    \/ ScanInstalledApps /\ UNCHANGED <<fnVars, liveVars, sigFiles, raceVars>>
    \/ GetRunningApps /\ UNCHANGED <<fnVars, liveVars, sigFiles, raceVars>>
    \/ GetRunningRegisteredApps /\ UNCHANGED <<fnVars, liveVars, sigFiles, raceVars>>
    \/ ReadCciSignals /\ UNCHANGED <<fnVars, liveVars, raceVars>>

SpecBestEffort == InitBestEffort /\ [][NextBestEffort]_vars

BestEffortOps == {"scan", "running_apps", "running_registered", "signals"}

UsableRoots ==
    {r \in fsRoots \ ret.io : r = UserRoot => home.some}

---------------------------------------------------------------------------
(* Two launcher processes, and an editor, on one registry file *)

\* add_registered_app up to and including its read_registered_apps(): the checks
\* of the arguments, then the list loaded from the file as it is now.
AddLoad(path, name, readOk) ==
    LET normalized_path == normalize_app_path(path, TRUE)
    IN  IF ~normalized_path.ok THEN Outcome(Err(normalized_path.err), disk, <<>>, <<>>)
        ELSE
        LET fallback_name == bundle_name_from_app_path(normalized_path.v)
        IN  IF ~fallback_name.some
                THEN Outcome(Err("Failed to derive app name from path."), disk, normalized_path.v, <<>>)
            ELSE
            LET normalized_name == Trim(IF name.some THEN name.v ELSE fallback_name.v)
            IN  IF normalized_name = <<>>
                    THEN Outcome(Err("App name cannot be empty."), disk, normalized_path.v, <<>>)
                ELSE Outcome(read_registered_apps(readOk), disk, normalized_path.v, normalized_name)

\* The write looks at the file again and adds to what it holds now.
AddStoreReconciled(apps, new_app, fault) ==
    LET current == read_registered_apps(TRUE)
        sorted_apps == sort_and_dedupe_apps(Upsert(IF current.ok THEN current.v ELSE apps, new_app))
        written == write_registered_apps(sorted_apps, fault)
    IN  [res |-> IF written.res.ok THEN Ok(sorted_apps) ELSE Err(written.res.err),
         file |-> written.file]

\* The rest of add_registered_app: the list computed from the loaded one, written.
AddStore(apps, new_app, fault) ==
    LET sorted_apps == sort_and_dedupe_apps(Upsert(apps, new_app))
        written == write_registered_apps(sorted_apps, fault)
    IN  [res |-> IF written.res.ok THEN Ok(sorted_apps) ELSE Err(written.res.err),
         file |-> written.file]

\* remove_registered_app up to and including its read_registered_apps().
RemoveLoad(path, readOk) ==
    LET trimmed_path == Trim(path)
    IN  IF trimmed_path = <<>> THEN Outcome(Err("App path is required."), disk, <<>>, <<>>)
        ELSE Outcome(read_registered_apps(readOk), disk, trimmed_path, <<>>)

\* The rest of remove_registered_app.
RemoveStore(apps, trimmed_path, fault) ==
    LET sorted_apps == sort_and_dedupe_apps(Retain(apps, trimmed_path))
        written == write_registered_apps(sorted_apps, fault)
    IN  [res |-> IF written.res.ok THEN Ok(sorted_apps) ELSE Err(written.res.err),
         file |-> written.file]

MaxEdits == 1

RaceAdds == {<<PathD, None>>, <<PathD, Some(NameZPadded)>>, <<PathC, None>>, <<PathF, None>>}
RaceRemoves == {PathDOther, PathC, Blank}

AppD == RegisteredApp(file_stem(PathD).v, PathD)
AppC == RegisteredApp(file_stem(PathC).v, PathC)

\* What an editor, or another program, leaves in the file.
EditedFiles == {Corrupt, Json(<<RegisteredApp(NameB, PathC)>>)}

InitRace ==
    /\ FnIdle
    /\ LiveIdle
    /\ SigIdle
    /\ home = Some(HomeDir)
    /\ fsRoots = {SystemRoot, UserRoot}
    /\ fsDirs = Bundles
    /\ disk \in {Absent, Json(<<AppD>>), Json(<<AppC, AppD>>)}
    /\ ret = NoCall
    /\ calls = [c \in Callers |-> NotCalled]
    /\ log = <<>>

\* A process enters a command: it has checked the arguments and read the file.
Loaded(op, path, name, out) ==
    [pc |-> IF out.res.ok THEN "loaded" ELSE "done", op |-> op, path |-> path, name |-> name,
     normalized_path |-> out.normalized_path, normalized_name |-> out.normalized_name,
     loaded |-> out.res.v, seen |-> disk, readAt |-> Len(log),
     ok |-> out.res.ok, value |-> <<>>, err |-> out.res.err]

AddBegins(c) ==
    /\ calls[c].pc = "idle"
    /\ \E arg \in RaceAdds, readOk \in BOOLEAN :
        calls' = [calls EXCEPT ![c] = Loaded("add", arg[1], arg[2], AddLoad(arg[1], arg[2], readOk))]
    /\ UNCHANGED <<home, fsRoots, fsDirs, disk, ret, log>>

RemoveBegins(c) ==
    /\ calls[c].pc = "idle"
    /\ \E path \in RaceRemoves, readOk \in BOOLEAN :
        calls' = [calls EXCEPT ![c] = Loaded("remove", path, None, RemoveLoad(path, readOk))]
    /\ UNCHANGED <<home, fsRoots, fsDirs, disk, ret, log>>

\* The process writes and returns. A write that fails before File::create has
\* opened the file is no write.
Stores(c, out, fault) ==
    /\ calls' = [calls EXCEPT ![c].pc = "done", ![c].ok = out.res.ok,
                              ![c].value = out.res.v, ![c].err = out.res.err]
    /\ disk' = out.file
    /\ log' = IF fault \in {"none", "write"}
                THEN Append(log, [by |-> c, file |-> out.file]) ELSE log
    /\ UNCHANGED <<home, fsRoots, fsDirs, ret>>

AddEnds(c) ==
    /\ calls[c].pc = "loaded"
    /\ calls[c].op = "add"
    /\ \E fault \in WriteFaults :
        Stores(c, AddStore(calls[c].loaded,
                           RegisteredApp(calls[c].normalized_name, calls[c].normalized_path),
                           fault), fault)

RemoveEnds(c) ==
    /\ calls[c].pc = "loaded"
    /\ calls[c].op = "remove"
    /\ \E fault \in WriteFaults :
        Stores(c, RemoveStore(calls[c].loaded, calls[c].normalized_path, fault), fault)

Edits == Len(SelectSeq(log, LAMBDA w : w.by = "editor"))

\* Someone edits apps.json outside the launcher.
ExternalEdit ==
    /\ Edits < MaxEdits
    /\ \E file \in EditedFiles \ {disk} :
        /\ disk' = file
        /\ log' = Append(log, [by |-> "editor", file |-> file])
    /\ UNCHANGED <<home, fsRoots, fsDirs, ret, calls>>

NextRace ==
    \/ \E c \in Callers : AddBegins(c) /\ UNCHANGED <<fnVars, liveVars, sigFiles>>
    \/ \E c \in Callers : RemoveBegins(c) /\ UNCHANGED <<fnVars, liveVars, sigFiles>>
    \/ \E c \in Callers : AddEnds(c) /\ UNCHANGED <<fnVars, liveVars, sigFiles>>
    \/ \E c \in Callers : RemoveEnds(c) /\ UNCHANGED <<fnVars, liveVars, sigFiles>>
    \/ ExternalEdit /\ UNCHANGED <<fnVars, liveVars, sigFiles>>

SpecRace == InitRace /\ [][NextRace]_vars

\* The list read_registered_apps gives for a file it can read.
ReadOf(file) ==
    IF file.state = "json" THEN sort_and_dedupe_apps(file.apps) ELSE <<>>

\* The list a call writes when it works on this loaded list alone.
ComputedFrom(call, apps) ==
    sort_and_dedupe_apps(
        IF call.op = "add"
            THEN Upsert(apps, RegisteredApp(call.normalized_name, call.normalized_path))
            ELSE Retain(apps, call.normalized_path))

\* The place of the caller's write in the log, 0 when it has not written.
WriteAt(c) ==
    IF \E i \in 1..Len(log) : log[i].by = c
        THEN CHOOSE i \in 1..Len(log) : log[i].by = c
        ELSE 0

\* C11: add_registered_app and remove_registered_app read the registry file inside
\* the call and write a list computed from that read alone, with no look at the
\* file at write time: the file is what the last writer wrote, and when two calls
\* both read before either writes, the file after both is what the later writer
\* computed from the file as it was before both, without the earlier writer's change.
C11_LastWriterWins ==
    /\ \A c \in Callers :
        /\ calls[c].pc = "loaded" => calls[c].loaded = ReadOf(calls[c].seen)
        /\ (calls[c].pc = "done" /\ calls[c].ok) =>
            /\ calls[c].value = ComputedFrom(calls[c], ReadOf(calls[c].seen))
            /\ log[WriteAt(c)].file = Json(calls[c].value)
    /\ log # <<>> => disk = log[Len(log)].file
    /\ \A c, d \in Callers :
        ( /\ c # d
          /\ 0 < WriteAt(c)
          /\ WriteAt(c) < WriteAt(d)
          /\ WriteAt(d) = Len(log)
          /\ calls[c].readAt < WriteAt(c)
          /\ calls[d].readAt < WriteAt(c)
          /\ calls[d].ok
          /\ calls[c].seen = calls[d].seen )
        => disk = Json(ComputedFrom(calls[d], ReadOf(calls[c].seen)))

\* Both processes read an absent registry; the first added Dugout and was told so,
\* the second then added Companion: the file holds Companion alone.
C11_Witness ==
    /\ calls["first"].pc = "done"
    /\ calls["second"].pc = "done"
    /\ calls["first"].seen = Absent
    /\ calls["second"].seen = Absent
    /\ calls["first"].ok
    /\ calls["first"].value = <<AppD>>
    /\ calls["second"].ok
    /\ WriteAt("first") = 1
    /\ WriteAt("second") = 2
    /\ Len(log) = 2
    /\ disk = Json(<<AppC>>)

====
